---------------------------- MODULE Spec2Model ----------------------------
(***************************************************************************)
(* Model of the reconciliation core of app.py: load_data and the helpers   *)
(* it calls (load_sheet_data, parse_hora, determinar_fecha_factura, the     *)
(* pandas left merge, the client-label resolution, the metrics and the      *)
(* pd.cut tier classification).                                             *)
(*                                                                          *)
(* Conventions.                                                             *)
(*  - A DataFrame is a record [columnas, filas]: the set of column names    *)
(*    and the sequence of rows; a row is a function from column names.      *)
(*  - A nullable cell is a sequence: <<>> is NaN / NaT / an empty CSV cell, *)
(*    <<v>> is the value v.  Key columns and amounts are plain values.      *)
(*  - A raw hour cell is the sequence of its characters (str(hora_str)).    *)
(*  - A raw date cell is <<anio, mes, dia>>, the fields of an ISO           *)
(*    "YYYY-MM-DD" text; a parsed date is <<n>>, n the number of days since *)
(*    2024-01-01 (a Monday), so that weekday() is n % 7.                    *)
(*  - %_Cumplimiento_Caja is an exact fraction [num, den] (the floating     *)
(*    point quotient is not rounded in the model), or "inf" / "nan".        *)
(***************************************************************************)
EXTENDS Integers, Sequences, FiniteSets, TLC

VARIABLES
    hojaPedidos,    \* the orders sheet behind PEDIDOS_URL
    hojaFacturas,   \* the invoices sheet behind FACTURAS_URL
    pc,             \* position inside load_data
    pedidos,        \* local DataFrame pedidos
    facturas,       \* local DataFrame facturas
    merged,         \* local DataFrame merged
    errores         \* messages passed to st.error, in order

vars == <<hojaPedidos, hojaFacturas, pc, pedidos, facturas, merged, errores>>

(***************************************************************************)
(* Bounds of the explored inputs.                                          *)
(***************************************************************************)
MaxHoraLen == 3     \* longest raw hour text
MaxPedidos == 2     \* most orders in a join scenario
MaxFacturas == 2    \* most invoices in a join scenario
MaxMonto == 120     \* largest invoice amount in a metrics scenario
DiasVentana == 14   \* length of the window of order dates explored

NaN == <<>>
Some(v) == <<v>>
DataFrameVacio == [columnas |-> {}, filas |-> <<>>]

(***************************************************************************)
(* Sequence helpers.                                                       *)
(***************************************************************************)
RECURSIVE SeqConcat(_)
SeqConcat(ss) == IF ss = <<>> THEN <<>> ELSE Head(ss) \o SeqConcat(Tail(ss))

SeqsUpTo(S, lo, hi) == UNION {[1..n -> S] : n \in lo..hi}

(***************************************************************************)
(* Text helpers used by parse_hora: str.strip, ':' in s, split(':')[0],    *)
(* int(text) and int(float(text)).                                         *)
(***************************************************************************)
Digitos == {"0", "1", "2", "3", "4", "5", "6", "7", "8", "9"}

DigitoValor(c) ==
    CASE c = "0" -> 0 [] c = "1" -> 1 [] c = "2" -> 2 [] c = "3" -> 3
      [] c = "4" -> 4 [] c = "5" -> 5 [] c = "6" -> 6 [] c = "7" -> 7
      [] c = "8" -> 8 [] c = "9" -> 9

RECURSIVE StripLeft(_)
StripLeft(s) == IF s # <<>> /\ Head(s) = " " THEN StripLeft(Tail(s)) ELSE s

RECURSIVE StripRight(_)
StripRight(s) ==
    IF s # <<>> /\ s[Len(s)] = " " THEN StripRight(SubSeq(s, 1, Len(s) - 1)) ELSE s

\* str.strip()
Strip(s) == StripRight(StripLeft(s))

Contiene(s, c) == \E i \in 1..Len(s) : s[i] = c

\* s.split(c)[0]: the text before the first c
AntesDe(s, c) ==
    LET i == CHOOSE k \in 1..Len(s) : s[k] = c /\ \A j \in 1..(k - 1) : s[j] # c
    IN  SubSeq(s, 1, i - 1)

SonDigitos(s) == s # <<>> /\ \A i \in 1..Len(s) : s[i] \in Digitos

RECURSIVE ValorDigitos(_)
ValorDigitos(s) ==
    IF s = <<>> THEN 0
    ELSE 10 * ValorDigitos(SubSeq(s, 1, Len(s) - 1)) + DigitoValor(s[Len(s)])

TieneSigno(s) == s # <<>> /\ Head(s) \in {"-", "+"}
SinSigno(s) == IF TieneSigno(s) THEN Tail(s) ELSE s
Signo(s) == IF s # <<>> /\ Head(s) = "-" THEN -1 ELSE 1

\* int(text): surrounding blanks, an optional sign, one or more digits;
\* anything else raises ValueError, modelled as NaN.
IntDeTexto(s) ==
    LET t == Strip(s)
    IN  IF SonDigitos(SinSigno(t)) THEN Some(Signo(t) * ValorDigitos(SinSigno(t)))
        ELSE NaN

\* int(float(text)): an optional sign, digits with at most one '.', at least
\* one digit; the fraction is truncated toward zero.  Anything else raises
\* ValueError, modelled as NaN.
IntDeFloatDeTexto(s) ==
    LET t == SinSigno(Strip(s))
        entero == IF Contiene(t, ".") THEN AntesDe(t, ".") ELSE t
        fraccion == IF Contiene(t, ".") THEN SubSeq(t, Len(entero) + 2, Len(t)) ELSE <<>>
    IN  IF /\ entero \o fraccion # <<>>
           /\ \A i \in 1..Len(entero) : entero[i] \in Digitos
           /\ \A i \in 1..Len(fraccion) : fraccion[i] \in Digitos
        THEN Some(Signo(Strip(s)) * ValorDigitos(entero))
        ELSE NaN

\* parse_hora(hora_str); an empty cell (NaN) is the empty text
parse_hora(hora_str) ==
    IF hora_str = <<>> THEN NaN
    ELSE LET s == Strip(hora_str)
         IN  IF Contiene(s, ":") THEN IntDeTexto(AntesDe(s, ":"))
             ELSE IntDeFloatDeTexto(s)

(***************************************************************************)
(* Dates: pd.to_datetime on ISO texts of year 2024, Timestamp.weekday(),   *)
(* and the derived calendar columns.                                       *)
(***************************************************************************)
NaT == <<>>
DiasMes == <<31, 29, 31, 30, 31, 30, 31, 31, 30, 31, 30, 31>>

RECURSIVE DiasAntesDeMes(_)
DiasAntesDeMes(m) == IF m <= 1 THEN 0 ELSE DiasAntesDeMes(m - 1) + DiasMes[m - 1]

\* mutant: a lenient conversion that accepts every text
FechaParseable_Tolerante(cruda) == TRUE

\* whether pd.to_datetime accepts the cell (an empty cell becomes NaT)
FechaParseable(cruda) ==
    \/ cruda = <<>>
    \/ /\ cruda[2] \in 1..12
       /\ cruda[3] \in 1..DiasMes[cruda[2]]

\* pd.to_datetime of one parseable cell
to_datetime(cruda) ==
    IF cruda = <<>> THEN NaT
    ELSE Some(DiasAntesDeMes(cruda[2]) + cruda[3] - 1)

\* Timestamp.weekday(): Monday is 0, Sunday is 6
weekday(n) == n % 7

MesDe(n) == CHOOSE m \in 1..12 : DiasAntesDeMes(m) <= n /\ n < DiasAntesDeMes(m) + DiasMes[m]

NombresDia == <<"Lunes", "Martes", "Miercoles", "Jueves", "Viernes", "Sabado", "Domingo">>

\* .dt.day_name(locale='es'), .dt.isocalendar().week, .dt.month
day_name(fecha) == IF fecha = NaT THEN NaN ELSE Some(NombresDia[weekday(fecha[1]) + 1])
iso_week(fecha) == IF fecha = NaT THEN NaN ELSE Some((fecha[1] \div 7) + 1)
month(fecha) == IF fecha = NaT THEN NaN ELSE Some(MesDe(fecha[1]))

\* mutant: the Saturday test written with Sunday's number
determinar_fecha_factura_Domingo(fecha_pedido) ==
    IF fecha_pedido = NaT THEN NaT
    ELSE IF weekday(fecha_pedido[1]) = 6
         THEN Some(fecha_pedido[1] + 2)
         ELSE Some(fecha_pedido[1] + 1)

\* mutant: no Saturday rule, always the next day
determinar_fecha_factura_SinSabado(fecha_pedido) ==
    IF fecha_pedido = NaT THEN NaT ELSE Some(fecha_pedido[1] + 1)

\* determinar_fecha_factura(fecha_pedido); NaT.weekday() is nan and
\* NaT + timedelta is NaT
determinar_fecha_factura(fecha_pedido) ==
    IF fecha_pedido = NaT THEN NaT
    ELSE IF weekday(fecha_pedido[1]) = 5
         THEN Some(fecha_pedido[1] + 2)
         ELSE Some(fecha_pedido[1] + 1)

(***************************************************************************)
(* DataFrame helpers.                                                      *)
(***************************************************************************)
\* DataFrame.empty
Empty(df) == df.columnas = {} \/ df.filas = <<>>

\* df[col] = valores, a Series with one value per row
ConColumna(df, col, valores) ==
    [columnas |-> df.columnas \cup {col},
     filas |-> [i \in 1..Len(df.filas) |->
                  [c \in df.columnas \cup {col} |->
                      IF c = col THEN valores[i] ELSE df.filas[i][c]]]]

\* df.index
Indice(df) == 1..Len(df.filas)

\* Series.fillna(v) on one cell, unwrapped
fillna(celda, v) == IF celda = NaN THEN v ELSE celda[1]

(***************************************************************************)
(* pd.merge(pedidos, facturas, how='left', left_on=..., right_on=...,      *)
(*          suffixes=('_Pedido', '_Factura'))                              *)
(***************************************************************************)
\* mutant: the join made on the order date
left_on_FechaPedido == <<"ID_Cliente", "Vendedor", "ID_Producto", "Fecha_Pedido">>

left_on == <<"ID_Cliente", "Vendedor", "ID_Producto", "Fecha_Factura_Esperada">>
right_on == <<"ID_Cliente", "Vendedor", "ID_Producto", "Fecha_Factura">>

\* key columns named alike on both sides: one column in the result
ClavesComunes == {left_on[i] : i \in {k \in 1..Len(left_on) : left_on[k] = right_on[k]}}

\* the row pair agrees on every key column (null keys match null keys)
Coincide(l, r) == \A i \in 1..Len(left_on) : l[left_on[i]] = r[right_on[i]]

Merge(L, R) ==
    LET solapadas == (L.columnas \cap R.columnas) \ ClavesComunes
        NomI(c) == IF c \in solapadas THEN c \o "_Pedido" ELSE c
        NomD(c) == IF c \in solapadas THEN c \o "_Factura" ELSE c
        colsD == R.columnas \ ClavesComunes
        cols == {NomI(c) : c \in L.columnas} \cup {NomD(c) : c \in colsD}
        Fila(l, r, hay) ==
            [n \in cols |->
                IF \E c \in L.columnas : NomI(c) = n
                THEN l[CHOOSE c \in L.columnas : NomI(c) = n]
                ELSE IF hay THEN r[CHOOSE c \in colsD : NomD(c) = n] ELSE NaN]
        FilasDe(l) ==
            LET m == SelectSeq(R.filas, LAMBDA r : Coincide(l, r))
            IN  IF m = <<>> THEN <<Fila(l, l, FALSE)>>
                ELSE [i \in 1..Len(m) |-> Fila(l, m[i], TRUE)]
    IN  [columnas |-> cols,
         filas |-> SeqConcat([i \in 1..Len(L.filas) |-> FilasDe(L.filas[i])])]

(***************************************************************************)
(* Metrics and tiers.                                                      *)
(***************************************************************************)
\* Series / Series * 100 on one row; a zero divisor gives inf or nan,
\* kept as a fraction of denominator 0
Dividir100(a, b) == [num |-> a * 100, den |-> b]

Cero == [num |-> 0, den |-> 1]

Diferencia_Caja(fila) == fila["Monto_Pedido"] - fillna(fila["Monto_Factura"], 0)

\* mutant: the quotient without the np.where guard
Pct_Cumplimiento_Caja_SinGuarda(fila) ==
    Dividir100(fillna(fila["Monto_Factura"], 0), fila["Monto_Pedido"])

\* np.where(Monto_Pedido > 0, Monto_Factura.fillna(0) / Monto_Pedido * 100, 0)
Pct_Cumplimiento_Caja(fila) ==
    IF fila["Monto_Pedido"] > 0
    THEN Dividir100(fillna(fila["Monto_Factura"], 0), fila["Monto_Pedido"])
    ELSE Cero

bins == <<-1, 0, 50, 80, 95, 100>>
labels == <<"Nada", "Bajo", "Medio", "Alto", "Completo">>

\* pd.cut(x, bins, labels) with right=True: bin i is (bins[i], bins[i+1]];
\* a value in no bin (also inf and nan) is NaN
pd_cut(x) ==
    LET EnBin(i) == /\ x.den > 0
                    /\ x.num > bins[i] * x.den
                    /\ x.num <= bins[i + 1] * x.den
    IN  IF \E i \in 1..Len(labels) : EnBin(i)
        THEN Some(labels[CHOOSE i \in 1..Len(labels) : EnBin(i)])
        ELSE NaN

(***************************************************************************)
(* load_sheet_data(url): the sheet, or an empty DataFrame and an error      *)
(* message when the request or the CSV parse fails.                         *)
(***************************************************************************)
load_sheet_data(hoja, ok) ==
    [df |-> IF ok THEN hoja ELSE DataFrameVacio,
     err |-> IF ok THEN <<>> ELSE <<"Error al cargar datos desde Google Sheets">>]

\* return pd.DataFrame(), pd.DataFrame(), pd.DataFrame() after st.error(msgs)
RetornaVacio(msgs) ==
    /\ pc' = "fin"
    /\ pedidos' = DataFrameVacio
    /\ facturas' = DataFrameVacio
    /\ merged' = DataFrameVacio
    /\ errores' = errores \o msgs

\* the except clause of load_data
Excepcion == RetornaVacio(<<"Error procesando datos">>)

(***************************************************************************)
(* load_data, step by step.                                                *)
(***************************************************************************)
\* lines 59-64
CargarHojas ==
    /\ pc = "inicio"
    /\ \E okP, okF \in BOOLEAN :
         LET p == load_sheet_data(hojaPedidos, okP)
             f == load_sheet_data(hojaFacturas, okF)
         IN  IF Empty(p.df) \/ Empty(f.df)
             THEN RetornaVacio(p.err \o f.err \o
                      <<"No se pudieron cargar los datos. Verifica que las hojas sean publicas.">>)
             ELSE /\ pc' = "fechas"
                  /\ pedidos' = p.df
                  /\ facturas' = f.df
                  /\ UNCHANGED <<merged, errores>>
    /\ UNCHANGED <<hojaPedidos, hojaFacturas>>

FechasParseables(df, col) == \A i \in 1..Len(df.filas) : FechaParseable(df.filas[i][col])

\* lines 67-68
ConvertirFechas ==
    /\ pc = "fechas"
    /\ IF FechasParseables(pedidos, "Fecha_Pedido") /\ FechasParseables(facturas, "Fecha_Factura")
       THEN /\ pedidos' = ConColumna(pedidos, "Fecha_Pedido",
                   [i \in Indice(pedidos) |-> to_datetime(pedidos.filas[i]["Fecha_Pedido"])])
            /\ facturas' = ConColumna(facturas, "Fecha_Factura",
                   [i \in Indice(facturas) |-> to_datetime(facturas.filas[i]["Fecha_Factura"])])
            /\ pc' = "horas"
            /\ UNCHANGED <<merged, errores>>
       ELSE Excepcion
    /\ UNCHANGED <<hojaPedidos, hojaFacturas>>

\* pedidos.dropna(subset=['Hora_Pedido'])
dropna_Hora(df) == [df EXCEPT !.filas = SelectSeq(df.filas, LAMBDA r : r["Hora_Pedido"] # NaN)]

\* lines 71-73
ProcesarHoras ==
    /\ pc = "horas"
    /\ LET parseadas == ConColumna(pedidos, "Hora_Pedido",
                   [i \in Indice(pedidos) |-> parse_hora(pedidos.filas[i]["Hora_Pedido"])])
           restantes == dropna_Hora(parseadas)
       IN  pedidos' = ConColumna(restantes, "Hora_Pedido",
                   [i \in Indice(restantes) |-> restantes.filas[i]["Hora_Pedido"][1]])
    /\ pc' = "columnas"
    /\ UNCHANGED <<hojaPedidos, hojaFacturas, facturas, merged, errores>>

\* lines 76-79; the locale 'es' of day_name is taken to be installed
ColumnasAdicionales ==
    /\ pc = "columnas"
    /\ LET a == ConColumna(pedidos, "Dia_Semana",
                   [i \in Indice(pedidos) |-> day_name(pedidos.filas[i]["Fecha_Pedido"])])
           b == ConColumna(a, "Semana",
                   [i \in Indice(a) |-> iso_week(a.filas[i]["Fecha_Pedido"])])
           c == ConColumna(b, "Mes",
                   [i \in Indice(b) |-> month(b.filas[i]["Fecha_Pedido"])])
       IN  pedidos' = ConColumna(c, "Fecha_Factura_Esperada",
                   [i \in Indice(c) |-> determinar_fecha_factura(c.filas[i]["Fecha_Pedido"])])
    /\ pc' = "merge"
    /\ UNCHANGED <<hojaPedidos, hojaFacturas, facturas, merged, errores>>

\* lines 82-89
Unir ==
    /\ pc = "merge"
    /\ merged' = Merge(pedidos, facturas)
    /\ pc' = "cliente"
    /\ UNCHANGED <<hojaPedidos, hojaFacturas, pedidos, facturas, errores>>

\* lines 92-93
ClienteDePedido(df) ==
    ConColumna(df, "Cliente", [i \in Indice(df) |-> df.filas[i]["Cliente_Pedido"]])

\* lines 92-100; in the elif of line 94 merged['Cliente_Pedido'] is read
\* although the column is absent, which raises KeyError
ResolverCliente ==
    /\ pc = "cliente"
    /\ IF "Cliente_Pedido" \in merged.columnas
       THEN /\ merged' = ClienteDePedido(merged)
            /\ pc' = "metricas"
            /\ UNCHANGED <<pedidos, facturas, errores>>
       ELSE IF "Cliente_Factura" \in merged.columnas
       THEN Excepcion
       ELSE IF "Cliente" \in merged.columnas
       THEN /\ pc' = "metricas"
            /\ UNCHANGED <<pedidos, facturas, merged, errores>>
       ELSE RetornaVacio(<<"No se encontro ninguna columna de cliente valida">>)
    /\ UNCHANGED <<hojaPedidos, hojaFacturas>>

\* lines 103-104
ProductoDePedido(df) ==
    IF "Producto_Pedido" \in df.columnas
    THEN ConColumna(df, "Producto", [i \in Indice(df) |-> df.filas[i]["Producto_Pedido"]])
    ELSE df

\* lines 103-121
CalcularMetricas ==
    /\ pc = "metricas"
    /\ LET p == ProductoDePedido(merged)
           a == ConColumna(p, "Diferencia_Caja",
                   [i \in Indice(p) |-> Diferencia_Caja(p.filas[i])])
           b == ConColumna(a, "%_Cumplimiento_Caja",
                   [i \in Indice(a) |-> Pct_Cumplimiento_Caja(a.filas[i])])
       IN  merged' = ConColumna(b, "Cumplimiento_Categoria_Caja",
                   [i \in Indice(b) |-> pd_cut(b.filas[i]["%_Cumplimiento_Caja"])])
    /\ pc' = "fin"
    /\ UNCHANGED <<hojaPedidos, hojaFacturas, pedidos, facturas, errores>>

Next ==
    \/ CargarHojas
    \/ ConvertirFechas
    \/ ProcesarHoras
    \/ ColumnasAdicionales
    \/ Unir
    \/ ResolverCliente
    \/ CalcularMetricas

(***************************************************************************)
(* The sheets explored.  Each family varies one part of the input around   *)
(* a base order and a base invoice.                                         *)
(***************************************************************************)
Pedido(id, cli, ven, pro, fecha, hora, monto) ==
    [ID_Pedido |-> id, ID_Cliente |-> cli, Vendedor |-> ven, ID_Producto |-> pro,
     Cliente |-> Some("Ana"), Fecha_Pedido |-> fecha, Hora_Pedido |-> hora,
     Monto_Pedido |-> monto]

Factura(cli, ven, pro, fecha, monto) ==
    [ID_Cliente |-> cli, Vendedor |-> ven, ID_Producto |-> pro,
     Cliente |-> Some("Ana"), Fecha_Factura |-> fecha, Monto_Factura |-> Some(monto)]

ColsPedido == DOMAIN Pedido(1, "C1", "S1", "P1", <<>>, <<>>, 0)
ColsFactura == DOMAIN Factura("C1", "S1", "P1", <<>>, 0)

\* the ISO text of day n of 2024
FechaCruda(n) == <<2024, MesDe(n), n - DiasAntesDeMes(MesDe(n)) + 1>>

Sabado2 == <<2024, 3, 2>>
Domingo3 == <<2024, 3, 3>>
Lunes4 == <<2024, 3, 4>>
Martes5 == <<2024, 3, 5>>
Miercoles6 == <<2024, 3, 6>>
Hora5 == <<"5">>

\* raw hour texts: every text of at most MaxHoraLen of these characters
HoraAlfabeto == {"2", "5", ":", "-", ".", "x", " "}

EscenariosHora ==
    {<<[columnas |-> ColsPedido,
        filas |-> <<Pedido(1, "C1", "S1", "P1", Lunes4, h, 100),
                    Pedido(2, "C1", "S1", "P2", Lunes4, Hora5, 100)>>],
       [columnas |-> ColsFactura,
        filas |-> <<Factura("C1", "S1", "P1", Martes5, 100)>>]>>
     : h \in SeqsUpTo(HoraAlfabeto, 0, MaxHoraLen)}

\* order dates: DiasVentana consecutive days from Monday 2024-02-26, an empty
\* cell and two texts that are no calendar date
InicioVentana == DiasAntesDeMes(2) + 25
FechasPedido ==
    {FechaCruda(n) : n \in InicioVentana..(InicioVentana + DiasVentana - 1)}
        \cup {<<>>, <<2024, 2, 30>>, <<2024, 3, 32>>}
FechasFactura ==
    {FechaCruda(n) : n \in InicioVentana..(InicioVentana + DiasVentana + 1)}
        \cup {<<>>, <<2024, 2, 30>>}

EscenariosFecha ==
    {<<[columnas |-> ColsPedido,
        filas |-> <<Pedido(1, "C1", "S1", "P1", fp, Hora5, 100)>>],
       [columnas |-> ColsFactura,
        filas |-> <<Factura("C1", "S1", "P1", ff, 100)>>]>>
     : fp \in FechasPedido, ff \in FechasFactura}

ClavesJoin == {<<"C1", "S1", "P1">>, <<"C2", "S1", "P1">>, <<"C1", "S2", "P1">>, <<"C1", "S1", "P2">>}
FacturasJoin ==
    {Factura(k[1], k[2], k[3], f, 50) : k \in ClavesJoin, f \in {Domingo3, Lunes4, Martes5}}

EscenariosJoin ==
    {<<[columnas |-> ColsPedido,
        filas |-> [i \in DOMAIN d |-> Pedido(i, "C1", "S1", "P1", d[i], Hora5, 100)]],
       [columnas |-> ColsFactura, filas |-> fs]>>
     : d \in SeqsUpTo({Sabado2, Lunes4}, 1, MaxPedidos),
       fs \in SeqsUpTo(FacturasJoin, 1, MaxFacturas)}

EscenariosMonto ==
    {<<[columnas |-> ColsPedido,
        filas |-> <<Pedido(1, "C1", "S1", "P1", Lunes4, Hora5, mp)>>],
       [columnas |-> ColsFactura,
        filas |-> <<Factura("C1", "S1", "P1", ff, mf)>>]>>
     : mp \in {0, 20, 100}, mf \in 0..MaxMonto, ff \in {Martes5, Miercoles6}}

\* optional label columns: Cliente on either sheet (the invoices sheet may
\* name it Cliente_Factura), Producto on both
SinColumna(fila, col) == [c \in (DOMAIN fila) \ {col} |-> fila[c]]

ConEtiqueta(fila, col, hay, valor) ==
    LET f == IF hay THEN fila @@ (col :> valor) ELSE fila
    IN  [columnas |-> DOMAIN f, filas |-> <<f>>]

EscenariosCliente ==
    {<<LET p == ConEtiqueta(SinColumna(Pedido(1, "C1", "S1", "P1", Lunes4, Hora5, 100), "Cliente"),
                            "Cliente", hayP, etP)
       IN  ConEtiqueta(p.filas[1], "Producto", hayProd, Some("Pan")),
       LET f == ConEtiqueta(SinColumna(Factura("C1", "S1", "P1", ff, 100), "Cliente"),
                            colF, hayF, etF)
       IN  ConEtiqueta(f.filas[1], "Producto", hayProd, Some("Pan 1kg"))>>
     : hayP \in BOOLEAN, etP \in {NaN, Some("Ana")},
       hayF \in BOOLEAN, etF \in {NaN, Some("Ana SA")},
       colF \in {"Cliente", "Cliente_Factura"}, hayProd \in BOOLEAN,
       ff \in {Martes5, Miercoles6}}

\* a sheet with its header and no rows
EscenariosVacios ==
    {<<[columnas |-> ColsPedido, filas |-> <<>>],
       [columnas |-> ColsFactura, filas |-> <<Factura("C1", "S1", "P1", Martes5, 100)>>]>>,
     <<[columnas |-> ColsPedido, filas |-> <<Pedido(1, "C1", "S1", "P1", Lunes4, Hora5, 100)>>],
       [columnas |-> ColsFactura, filas |-> <<>>]>>}

Escenarios ==
    EscenariosHora \cup EscenariosFecha \cup EscenariosJoin \cup EscenariosMonto
        \cup EscenariosCliente \cup EscenariosVacios

Init ==
    /\ \E e \in Escenarios : hojaPedidos = e[1] /\ hojaFacturas = e[2]
    /\ pc = "inicio"
    /\ pedidos = DataFrameVacio
    /\ facturas = DataFrameVacio
    /\ merged = DataFrameVacio
    /\ errores = <<>>

Spec == Init /\ [][Next]_vars

(***************************************************************************)
(* Properties.                                                             *)
(***************************************************************************)
Filas(df) == {df.filas[i] : i \in 1..Len(df.filas)}

\* load_data has returned
Terminado == pc = "fin"

\* load_data has returned pedidos, facturas, merged (line 121)
Exito == pc = "fin" /\ merged.columnas # {}

\* the hour step has run and load_data has not returned the empty triple
HorasProcesadas == pc \in {"columnas", "merge", "cliente", "metricas", "fin"} /\ pedidos.columnas # {}

\* the invoice amount of a reconciled row, 0 if it has none
MontoFacturado(m) == IF m["Monto_Factura"] = <<>> THEN 0 ELSE m["Monto_Factura"][1]

\* some invoice equals the reconciled row on the four key fields
TieneFacturaIgual(m) ==
    \E f \in Filas(facturas) :
        /\ f["ID_Cliente"] = m["ID_Cliente"]
        /\ f["Vendedor"] = m["Vendedor"]
        /\ f["ID_Producto"] = m["ID_Producto"]
        /\ f["Fecha_Factura"] = m["Fecha_Factura_Esperada"]

\* C1: when load_data succeeds, every order of the working set has exactly
\* one reconciled row with its ID_Pedido (none dropped, none duplicated).
C1_UnaFilaPorPedido ==
    Exito =>
        \A o \in Filas(pedidos) :
            Cardinality({i \in 1..Len(merged.filas) :
                           merged.filas[i]["ID_Pedido"] = o["ID_Pedido"]}) = 1

\* C2: when load_data succeeds, a reconciled row carries an invoice amount
\* if and only if some invoice has the row's client, salesperson and product
\* and is dated on the row's expected invoice date; and every reconciled row
\* is the row of an order of the working set (no row for an invoice alone).
C2_MontoSiiCoincide ==
    Exito =>
        \A m \in Filas(merged) :
            /\ (m["Monto_Factura"] # <<>>) <=> TieneFacturaIgual(m)
            /\ \E o \in Filas(pedidos) : \A c \in pedidos.columnas \ {"Cliente"} : m[c] = o[c]

\* C2 witness: a Saturday order, an invoice with its client, salesperson and
\* product dated the Sunday after, and the order's row without invoice amount.
C2_Witness ==
    /\ Exito
    /\ \E m \in Filas(merged) :
         /\ m["Fecha_Pedido"] = <<61>>
         /\ m["Monto_Factura"] = <<>>
         /\ \E f \in Filas(facturas) :
              /\ f["ID_Cliente"] = m["ID_Cliente"]
              /\ f["Vendedor"] = m["Vendedor"]
              /\ f["ID_Producto"] = m["ID_Producto"]
              /\ f["Fecha_Factura"] = <<62>>

\* the tier the specification assigns to a percentage num/den, den > 0
TierEsperado(x) ==
    IF x.num <= 0 THEN "Nada"
    ELSE IF x.num <= 50 * x.den THEN "Bajo"
    ELSE IF x.num <= 80 * x.den THEN "Medio"
    ELSE IF x.num <= 95 * x.den THEN "Alto"
    ELSE "Completo"

\* C3: when load_data succeeds, every reconciled row has the tier of its
\* percentage: <= 0 Nada, (0,50] Bajo, (50,80] Medio, (80,95] Alto, above 95
\* Completo, the values above 100 included.
C3_TierTotal ==
    Exito =>
        \A m \in Filas(merged) :
            m["Cumplimiento_Categoria_Caja"] = <<TierEsperado(m["%_Cumplimiento_Caja"])>>

\* the client label of the order and of the matched invoice of a row
EtiquetaPedido(m) ==
    IF "Cliente_Pedido" \in DOMAIN m THEN m["Cliente_Pedido"]
    ELSE IF "Cliente" \in hojaPedidos.columnas THEN m["Cliente"]
    ELSE <<>>

EtiquetaFactura(m) ==
    IF "Cliente_Factura" \in DOMAIN m THEN m["Cliente_Factura"]
    ELSE IF "Cliente" \in hojaFacturas.columnas THEN m["Cliente"]
    ELSE <<>>

\* C4: when load_data succeeds, the Cliente of a reconciled row is non-null
\* whenever the order's label or the matched invoice's label is non-null.
C4_ClienteNoNulo ==
    Exito =>
        \A m \in Filas(merged) :
            (EtiquetaPedido(m) # <<>> \/ EtiquetaFactura(m) # <<>>) => m["Cliente"] # <<>>

\* C5: once the expected invoice date is computed, every order with a date
\* has Fecha_Factura_Esperada = Fecha_Pedido + 2 days if Fecha_Pedido is a
\* Saturday and Fecha_Pedido + 1 day otherwise; the computation fails for no
\* order (an undated order gets no expected date).
C5_FechaEsperada ==
    (pc \in {"merge", "cliente", "metricas"} \/ Exito) =>
        /\ "Fecha_Factura_Esperada" \in pedidos.columnas
        /\ \A o \in Filas(pedidos) :
             IF o["Fecha_Pedido"] = <<>>
             THEN o["Fecha_Factura_Esperada"] = <<>>
             ELSE LET n == o["Fecha_Pedido"][1]
                  IN  o["Fecha_Factura_Esperada"] =
                          <<n + (IF NombresDia[(n % 7) + 1] = "Sabado" THEN 2 ELSE 1)>>

\* C5 witness: the order of Saturday 2024-03-02 expects Monday 2024-03-04.
C5_Witness ==
    /\ Exito
    /\ \E i \in 1..Len(hojaPedidos.filas) : hojaPedidos.filas[i]["Fecha_Pedido"] = <<2024, 3, 2>>
    /\ \E o \in Filas(pedidos) :
         o["Fecha_Pedido"] = to_datetime(<<2024, 3, 2>>)
             /\ o["Fecha_Factura_Esperada"] = to_datetime(<<2024, 3, 4>>)

\* C6: when load_data returns its result after excluding an order for its
\* hour, a diagnostic has been reported.
C6_ExclusionReportada ==
    (Exito /\ Len(pedidos.filas) < Len(hojaPedidos.filas)) => errores # <<>>

\* C6 witness side: an order was excluded and the run went on to its result.
C6_Excluido ==
    /\ Exito
    /\ Len(pedidos.filas) < Len(hojaPedidos.filas)
    /\ merged.filas # <<>>

\* a date cell that holds a text that is no calendar date of 2024
EsFechaCalendario(cruda) ==
    /\ cruda[2] \in 1..12
    /\ cruda[3] >= 1
    /\ LET n == DiasAntesDeMes(cruda[2]) + cruda[3] - 1
       IN  n <= 365 /\ FechaCruda(n) = cruda
HayFechaInvalida ==
    \/ \E i \in 1..Len(hojaPedidos.filas) :
         LET c == hojaPedidos.filas[i]["Fecha_Pedido"] IN c # <<>> /\ ~EsFechaCalendario(c)
    \/ \E i \in 1..Len(hojaFacturas.filas) :
         LET c == hojaFacturas.filas[i]["Fecha_Factura"] IN c # <<>> /\ ~EsFechaCalendario(c)

\* C7: if an order date or an invoice date is unparseable, load_data gets
\* past the date conversion only by returning: it returns three empty
\* DataFrames and has reported an error.
C7_FechaInvalidaFalla ==
    (pc \notin {"inicio", "fechas"} /\ HayFechaInvalida) =>
        /\ pc = "fin"
        /\ pedidos = DataFrameVacio
        /\ facturas = DataFrameVacio
        /\ merged = DataFrameVacio
        /\ errores # <<>>

\* C7 witness: both sheets were loaded, a date was unparseable and the run
\* ended in the except clause.
C7_Witness ==
    /\ Terminado
    /\ HayFechaInvalida
    /\ errores = <<"Error procesando datos">>

\* C8: after the hour step, every order of the working set has an hour in 0..23.
C8_HoraEnRango ==
    HorasProcesadas => \A o \in Filas(pedidos) : o["Hora_Pedido"] \in 0..23

\* C9: when load_data succeeds, the percentage of a reconciled row is 0 if
\* the order amount is 0 and otherwise invoice amount (0 if none) / order
\* amount * 100, a finite number in both cases.
C9_Porcentaje ==
    Exito =>
        \A m \in Filas(merged) :
            LET x == m["%_Cumplimiento_Caja"]
            IN  /\ x.den # 0
                /\ IF m["Monto_Pedido"] = 0 THEN x.num = 0
                   ELSE x.num * m["Monto_Pedido"] = MontoFacturado(m) * 100 * x.den

\* C9 witness: an order of amount 0 matched to an invoice of positive amount.
C9_Witness ==
    /\ Exito
    /\ \E m \in Filas(merged) :
         /\ m["Monto_Pedido"] = 0
         /\ MontoFacturado(m) > 0
         /\ m["%_Cumplimiento_Caja"].num = 0

\* C10: no expected invoice date is a Sunday, and no reconciled row carries
\* an invoice dated on a Sunday.
C10_NuncaDomingo ==
    /\ (pc \in {"merge", "cliente", "metricas"} \/ Exito) =>
         \A o \in Filas(pedidos) :
             o["Fecha_Factura_Esperada"] # <<>> =>
                 NombresDia[(o["Fecha_Factura_Esperada"][1] % 7) + 1] # "Domingo"
    /\ (pc \in {"cliente", "metricas"} \/ Exito) =>
         \A m \in Filas(merged) :
             (m["Monto_Factura"] # <<>> /\ m["Fecha_Factura"] # <<>>) =>
                 NombresDia[(m["Fecha_Factura"][1] % 7) + 1] # "Domingo"

\* C10 witness: a Saturday order with an invoice of its client, salesperson
\* and product dated on the Sunday and another on the Monday; the row
\* carries the Monday invoice.
C10_Witness ==
    /\ Exito
    /\ \E f \in Filas(facturas) :
         f["Fecha_Factura"] = <<62>> /\ f["ID_Cliente"] = "C1" /\ f["Vendedor"] = "S1"
             /\ f["ID_Producto"] = "P1"
    /\ \E m \in Filas(merged) :
         /\ m["Fecha_Pedido"] = <<61>>
         /\ m["Monto_Factura"] # <<>>
         /\ m["Fecha_Factura"] = <<63>>
    /\ \A m \in Filas(merged) : m["Fecha_Pedido"] = <<61>>

=============================================================================
